---- MODULE Spec2Model ----
(***************************************************************************)
(* A model of hyperport's raw-socket HTTP server (src/main.rs): the        *)
(* listener set-up in CustomTcpListener::bind, the accept loop of main,    *)
(* the per-connection threads running handle_connection, the request-line *)
(* parser and the two fixed responses.                                     *)
(*                                                                         *)
(* Text is modelled as sequences of one-character strings; the control     *)
(* characters are written "LF", "CR", "TAB", the byte 0xFF (never valid in *)
(* UTF-8) is "xFF" and U+FFFD REPLACEMENT CHARACTER is "uFFFD".            *)
(***************************************************************************)
EXTENDS Integers, Sequences, FiniteSets, TLC

(***************************************************************************)
(* Bounds of the model.                                                    *)
(***************************************************************************)
\* peers that connect during one run
MaxConn == 2
\* longest METHOD and PATH token the parser is tried on
MaxTokLen == 2
\* longest arbitrary input the parser is tried on
MaxReqLen == 3

\* let mut buffer = [0; 1024];
BufSize == 1024

Min(a, b) == IF a < b THEN a ELSE b

(***************************************************************************)
(* Text helpers: the standard-library calls used by parse_request.         *)
(***************************************************************************)
\* char::is_whitespace, restricted to the characters of the model
WhiteSpace == {" ", "TAB", "LF", "CR"}

\* position of the first "LF" of s, 0 when there is none
RECURSIVE FirstLF(_, _)
FirstLF(s, i) ==
    IF i > Len(s) THEN 0
    ELSE IF s[i] = "LF" THEN i
    ELSE FirstLF(s, i + 1)

\* a line that ended in "LF" also loses one "CR" before it
StripCR(s) ==
    IF Len(s) > 0 /\ s[Len(s)] = "CR" THEN SubSeq(s, 1, Len(s) - 1) ELSE s

\* str::lines: split at "LF" (or "CR" "LF"); no final empty line
RECURSIVE lines(_)
lines(s) ==
    IF s = << >> THEN << >>
    ELSE LET i == FirstLF(s, 1) IN
         IF i = 0 THEN << s >>
         ELSE << StripCR(SubSeq(s, 1, i - 1)) >> \o lines(SubSeq(s, i + 1, Len(s)))

\* length of the longest prefix of s made of characters (not) in WhiteSpace
RECURSIVE RunLen(_, _, _)
RunLen(s, i, white) ==
    IF i > Len(s) \/ ((s[i] \in WhiteSpace) # white) THEN i - 1
    ELSE RunLen(s, i + 1, white)

\* str::split_whitespace: the maximal runs of non-whitespace characters
RECURSIVE split_whitespace(_)
split_whitespace(s) ==
    LET w == RunLen(s, 1, TRUE)
        rest == SubSeq(s, w + 1, Len(s))
        t == RunLen(rest, 1, FALSE)
    IN  IF rest = << >> THEN << >>
        ELSE << SubSeq(rest, 1, t) >> \o split_whitespace(SubSeq(rest, t + 1, Len(rest)))

\* String::from_utf8_lossy on the bytes of the model: every byte is ASCII
\* except 0xFF, which is replaced by U+FFFD
from_utf8_lossy(bytes) ==
    [i \in 1..Len(bytes) |-> IF bytes[i] = "xFF" THEN "uFFFD" ELSE bytes[i]]

ParseOk(method, path) == [ok |-> TRUE, method |-> method, path |-> path]
ParseErr(msg) == [ok |-> FALSE, err |-> msg]

\* parse_request as written, except that it returns the third token as the path
parse_request_third(request) ==
    LET ls == lines(request) IN
    IF ls = << >> THEN ParseErr("Empty request")
    ELSE LET parts == split_whitespace(ls[1]) IN
         IF Len(parts) < 3 THEN ParseErr("Invalid request line")
         ELSE ParseOk(parts[1], parts[3])

\* parse_request as written, except that two tokens are enough for it
parse_request_two_tokens(request) ==
    LET ls == lines(request) IN
    IF ls = << >> THEN ParseErr("Empty request")
    ELSE LET parts == split_whitespace(ls[1]) IN
         IF Len(parts) < 2 THEN ParseErr("Invalid request line")
         ELSE ParseOk(parts[1], parts[2])

\* fn parse_request(request: &str) -> Result<(String, String), &'static str>
parse_request(request) ==
    LET ls == lines(request) IN
    IF ls = << >> THEN ParseErr("Empty request")
    ELSE LET parts == split_whitespace(ls[1]) IN
         IF Len(parts) < 3 THEN ParseErr("Invalid request line")
         ELSE ParseOk(parts[1], parts[2])

(***************************************************************************)
(* The two responses.                                                      *)
(***************************************************************************)
\* the decimal digits of n, as format!("{}", n) prints a usize
RECURSIVE Decimal(_)
Decimal(n) ==
    LET d == << "0", "1", "2", "3", "4", "5", "6", "7", "8", "9" >>[(n % 10) + 1] IN
    IF n < 10 THEN << d >> ELSE Decimal(n \div 10) \o << d >>

CRLF == << "CR", "LF" >>

\* "Content-Type: text/html; charset=utf-8\r\nConnection: close\r\nContent-Length: "
FixedHeaders ==
    << "C", "o", "n", "t", "e", "n", "t", "-", "T", "y", "p", "e", ":", " ", "t", "e", "x",
    "t", "/", "h", "t", "m", "l", ";", " ", "c", "h", "a", "r", "s", "e", "t", "=", "u",
    "t", "f", "-", "8", "CR", "LF" >>
    \o << "C", "o", "n", "n", "e", "c", "t", "i", "o", "n", ":", " ", "c", "l", "o", "s", "e",
    "CR", "LF" >>
    \o << "C", "o", "n", "t", "e", "n", "t", "-", "L", "e", "n", "g", "t", "h", ":", " " >>

\* html_body of send_ok_response
OkBody ==
    << "<", "!", "D", "O", "C", "T", "Y", "P", "E", " ", "h", "t", "m", "l", ">", "LF", "<",
    "h", "t", "m", "l", ">", "LF", "<", "h", "e", "a", "d", ">", "LF", " ", " ", " ", " ",
    "<", "t", "i", "t", "l", "e", ">", "H", "e", "l", "l", "o", " ", "W", "o", "r", "l",
    "d", "<", "/", "t", "i", "t", "l", "e", ">", "LF", "<", "/", "h", "e", "a", "d", ">",
    "LF", "<", "b", "o", "d", "y", ">", "LF", " ", " ", " ", " ", "<", "h", "1", ">", "H",
    "e", "l", "l", "o", ",", " ", "W", "o", "r", "l", "d", "!", "<", "/", "h", "1", ">",
    "LF", "<", "/", "b", "o", "d", "y", ">", "LF", "<", "/", "h", "t", "m", "l", ">" >>

\* html_body of send_bad_request_response
BadRequestBody ==
    << "<", "!", "D", "O", "C", "T", "Y", "P", "E", " ", "h", "t", "m", "l", ">", "LF", "<",
    "h", "t", "m", "l", ">", "LF", "<", "h", "e", "a", "d", ">", "LF", " ", " ", " ", " ",
    "<", "t", "i", "t", "l", "e", ">", "B", "a", "d", " ", "R", "e", "q", "u", "e", "s",
    "t", "<", "/", "t", "i", "t", "l", "e", ">", "LF", "<", "/", "h", "e", "a", "d", ">",
    "LF", "<", "b", "o", "d", "y", ">", "LF", " ", " ", " ", " ", "<", "h", "1", ">", "4",
    "0", "0", " ", "B", "a", "d", " ", "R", "e", "q", "u", "e", "s", "t", "<", "/", "h",
    "1", ">", "LF", "<", "/", "b", "o", "d", "y", ">", "LF", "<", "/", "h", "t", "m", "l",
    ">" >>

\* the format! of send_ok_response, as bytes
OkResponse ==
    << "H", "T", "T", "P", "/", "1", ".", "1", " ", "2", "0", "0", " ", "O", "K", "CR", "LF" >>
    \o FixedHeaders \o Decimal(Len(OkBody)) \o CRLF \o CRLF \o OkBody

\* the format! of send_bad_request_response, as bytes
BadRequestResponse ==
    << "H", "T", "T", "P", "/", "1", ".", "1", " ", "4", "0", "0", " ", "B", "a", "d", " ",
    "R", "e", "q", "u", "e", "s", "t", "CR", "LF" >>
    \o FixedHeaders \o Decimal(Len(BadRequestBody)) \o CRLF \o CRLF \o BadRequestBody

(***************************************************************************)
(* The server: state.                                                      *)
(***************************************************************************)
VARIABLES
    addr,           \* what the argument of bind parses to: "V4", "V6", "Unparsable"
    mainPc,         \* where the main thread is
    bindResult,     \* how CustomTcpListener::bind ended: "none", "Ok", "Err", "Panic"
    bindFd,         \* the local fd of bind, later listener.fd; -1 before socket()
    listener,       \* TRUE while main owns a CustomTcpListener value
    fdTable,        \* the process's descriptor table: number -> socket, or Free
    closeCalls,     \* per socket, the close() calls that reached it
    users,          \* per socket, the threads that issued an OS call on it
    stray,          \* TRUE once an OS call was issued on a number that is not open
    nConn,          \* peers that have connected so far (peer c is the c-th)
    nAcc,           \* peers taken from the backlog by accept() so far
    acceptFailed,   \* TRUE once an accept() call has failed
    lastAccept,     \* result of the latest accept(): "none", "ok", "err"
    req,            \* per peer, the bytes it sends
    avail,          \* per peer, how many of them have arrived at the server
    peer,           \* per peer: "idle", "fin" (closed its side), "rst" (reset)
    pc,             \* per connection, where its thread is
    fdOf,           \* per connection, stream.fd; -1 before accept
    bytes_read,     \* per connection, the result of its read; -2 before it returns
    status,         \* per connection, the response chosen: 0 (none), 200, 400
    total_written,  \* per connection, total_written of its write_all
    wres,           \* per connection, the result of write_all: "none", "ok", "err"
    rcvd,           \* per socket, the bytes written to it, in order
    pin,            \* the input of the parser run
    pres,           \* the result of the parser run
    wbuf,           \* write_all on its own: its argument buf
    wpos,           \* where it is: "none", "loop", "oswrite", "Ok", "Err"
    wtotal,         \* its local total_written
    woff,           \* the offset into buf of the pointer given to libc::write
    wlen,           \* the length given to libc::write
    wsent,          \* the bytes libc::write has taken, in order
    wfailed         \* TRUE once a libc::write has failed

vars == << addr, mainPc, bindResult, bindFd, listener, fdTable, closeCalls, users,
           stray, nConn, nAcc, acceptFailed, lastAccept, req, avail, peer, pc, fdOf,
           bytes_read, status, total_written, wres, rcvd, pin, pres,
           wbuf, wpos, wtotal, woff, wlen, wsent, wfailed >>

mainVars == << addr, mainPc, bindResult, bindFd, listener, nAcc, acceptFailed, lastAccept >>
peerVars == << nConn, req, avail, peer >>
unitVars == << pc, fdOf, bytes_read, status, total_written, wres >>
parserVars == << pin, pres >>
writerVars == << wbuf, wpos, wtotal, woff, wlen, wsent, wfailed >>

Conns == 1..MaxConn
\* socket 0 is the listening socket, socket c the connection of peer c
ListenSock == 0
SockIds == {ListenSock} \cup Conns
\* thread 0 is the main thread, thread c runs handle_connection for connection c
MainThread == 0
Free == -1
\* descriptors 0, 1 and 2 are the standard streams
FdNums == 3..(3 + MaxConn)

AddrKinds == {"V4", "V6", "Unparsable"}

GetRoot ==
    << "G", "E", "T", " ", "/", " ", "H", "T", "T", "P", "/", "1", ".", "1", "CR", "LF", "CR",
    "LF" >>
\* what a peer sets out to send: a valid GET, or one byte that is not UTF-8
Requests == {GetRoot, << "xFF" >>}
\* a request may arrive in two segments, the first of this length
SegLen == 3
\* the OS may take this many bytes of a write instead of all of them
WriteChunk == 128

NoResult == [ok |-> FALSE, err |-> "not run"]

(***************************************************************************)
(* The descriptor table, as the OS keeps it.                               *)
(***************************************************************************)
\* socket() and accept() return the lowest number not in use
LowestFree(tbl) ==
    CHOOSE f \in FdNums : tbl[f] = Free /\ \A g \in FdNums : g < f => tbl[g] # Free

\* the socket an OS call on descriptor number fd reaches (Free: EBADF)
SockAt(tbl, fd) == IF fd \in FdNums THEN tbl[fd] ELSE Free

\* close(fd) by thread t: the number becomes free; the call is recorded
OsClose(t, fd) ==
    LET s == SockAt(fdTable, fd) IN
    IF s = Free
    THEN /\ stray' = TRUE
         /\ UNCHANGED << fdTable, closeCalls, users >>
    ELSE /\ fdTable' = [fdTable EXCEPT ![fd] = Free]
         /\ closeCalls' = [closeCalls EXCEPT ![s] = @ + 1]
         /\ users' = [users EXCEPT ![s] = @ \cup {t}]
         /\ UNCHANGED stray

\* the process is running (its threads take steps) until it has exited
Alive == mainPc # "exited"

ServerInit ==
    /\ mainPc = "start"
    /\ bindResult = "none"
    /\ bindFd = -1
    /\ listener = FALSE
    /\ fdTable = [f \in FdNums |-> Free]
    /\ closeCalls = [s \in SockIds |-> 0]
    /\ users = [s \in SockIds |-> {}]
    /\ stray = FALSE
    /\ nConn = 0
    /\ nAcc = 0
    /\ acceptFailed = FALSE
    /\ lastAccept = "none"
    /\ req = [c \in Conns |-> << >>]
    /\ avail = [c \in Conns |-> 0]
    /\ peer = [c \in Conns |-> "idle"]
    /\ pc = [c \in Conns |-> "none"]
    /\ fdOf = [c \in Conns |-> -1]
    /\ bytes_read = [c \in Conns |-> -2]
    /\ status = [c \in Conns |-> 0]
    /\ total_written = [c \in Conns |-> 0]
    /\ wres = [c \in Conns |-> "none"]
    /\ rcvd = [s \in SockIds |-> << >>]

\* no call of write_all on its own is under way
WriterIdle ==
    /\ wbuf = << >>
    /\ wpos = "none"
    /\ wtotal = 0
    /\ woff = 0
    /\ wlen = 0
    /\ wsent = << >>
    /\ wfailed = FALSE

Init ==
    /\ addr \in AddrKinds
    /\ ServerInit
    /\ pin = << >>
    /\ pres = NoResult
    /\ WriterIdle

(***************************************************************************)
(* main and CustomTcpListener::bind.                                       *)
(***************************************************************************)
\* a panic on the main thread: bind's own, or the unwrap of its Err in main
MainPanics(how) ==
    /\ bindResult' = how
    /\ mainPc' = "panicked"

\* let socket_addr: SocketAddr = addr.parse().unwrap();
ParseAddr ==
    /\ mainPc = "start"
    /\ IF addr = "Unparsable"
       THEN MainPanics("Panic")
       ELSE mainPc' = "socket" /\ UNCHANGED bindResult
    /\ UNCHANGED << addr, bindFd, listener, nAcc, acceptFailed, lastAccept, fdTable,
                    closeCalls, users, stray, rcvd >>
    /\ UNCHANGED << peerVars, unitVars, parserVars, writerVars >>

\* libc::socket(...); if fd < 0 { return Err(..) }
Socket ==
    /\ mainPc = "socket"
    /\ \E ok \in BOOLEAN :
          IF ok
          THEN /\ bindFd' = LowestFree(fdTable)
               /\ fdTable' = [fdTable EXCEPT ![LowestFree(fdTable)] = ListenSock]
               /\ mainPc' = "setsockopt"
               /\ UNCHANGED bindResult
          ELSE /\ MainPanics("Err")
               /\ UNCHANGED << bindFd, fdTable >>
    /\ UNCHANGED << addr, listener, nAcc, acceptFailed, lastAccept, closeCalls, users,
                    stray, rcvd >>
    /\ UNCHANGED << peerVars, unitVars, parserVars, writerVars >>

\* a later OS step of bind failed: libc::close(fd); return Err(..)
BindStepFails ==
    /\ OsClose(MainThread, bindFd)
    /\ MainPanics("Err")

\* one of setsockopt, bind, listen: on success go on to `next`
BindStep(at, next) ==
    /\ mainPc = at
    /\ \E ok \in BOOLEAN :
          IF ok
          THEN /\ mainPc' = next
               /\ UNCHANGED << bindResult, fdTable, closeCalls, users, stray >>
          ELSE BindStepFails
    /\ UNCHANGED << addr, bindFd, listener, nAcc, acceptFailed, lastAccept, rcvd >>
    /\ UNCHANGED << peerVars, unitVars, parserVars, writerVars >>

SetSockOpt == BindStep("setsockopt", "match_addr")

\* match socket_addr { V4 => .., V6 => panic!(..) }
MatchAddr ==
    /\ mainPc = "match_addr"
    /\ IF addr = "V4"
       THEN mainPc' = "bind" /\ UNCHANGED bindResult
       ELSE MainPanics("Panic")
    /\ UNCHANGED << addr, bindFd, listener, nAcc, acceptFailed, lastAccept, fdTable,
                    closeCalls, users, stray, rcvd >>
    /\ UNCHANGED << peerVars, unitVars, parserVars, writerVars >>

Bind == BindStep("bind", "listen")

\* libc::listen(fd, 128), then Ok(CustomTcpListener { fd }) and main's loop
Listen ==
    /\ mainPc = "listen"
    /\ \E ok \in BOOLEAN :
          IF ok
          THEN /\ mainPc' = "accept"
               /\ bindResult' = "Ok"
               /\ listener' = TRUE
               /\ UNCHANGED << fdTable, closeCalls, users, stray >>
          ELSE /\ BindStepFails
               /\ UNCHANGED listener
    /\ UNCHANGED << addr, bindFd, nAcc, acceptFailed, lastAccept, rcvd >>
    /\ UNCHANGED << peerVars, unitVars, parserVars, writerVars >>

\* accept, where the loop first waits for every earlier connection to finish
Accepted_sequential(c, fd) ==
    /\ mainPc = "accept"
    /\ SockAt(fdTable, bindFd) = ListenSock
    /\ \A d \in Conns : pc[d] \in {"none", "done", "nospawn"}
    /\ nAcc < nConn
    /\ c = nAcc + 1
    /\ fd = LowestFree(fdTable)
    /\ nAcc' = c
    /\ fdOf' = [fdOf EXCEPT ![c] = fd]
    /\ lastAccept' = "ok"

\* accept, where every thread uses the descriptor accepted last
Accepted_shared(c, fd) ==
    /\ mainPc = "accept"
    /\ SockAt(fdTable, bindFd) = ListenSock
    /\ nAcc < nConn
    /\ c = nAcc + 1
    /\ fd = LowestFree(fdTable)
    /\ nAcc' = c
    /\ fdOf' = [d \in Conns |-> IF d <= c THEN fd ELSE fdOf[d]]
    /\ lastAccept' = "ok"

\* the loop ends at the first failing accept
AcceptFail_breaks ==
    /\ mainPc = "accept"
    /\ acceptFailed' = TRUE
    /\ lastAccept' = "err"
    /\ mainPc' = "panicked"
    /\ users' = [users EXCEPT ![ListenSock] = @ \cup {MainThread}]
    /\ UNCHANGED << addr, bindResult, bindFd, listener, nAcc >>
    /\ UNCHANGED << fdTable, closeCalls, stray, rcvd >>
    /\ UNCHANGED << peerVars, unitVars, parserVars, writerVars >>

\* a failing accept after which the loop closes the listening socket and goes
\* round
AcceptFail_closes ==
    /\ mainPc = "accept"
    /\ acceptFailed' = TRUE
    /\ lastAccept' = "err"
    /\ OsClose(MainThread, bindFd)
    /\ UNCHANGED << addr, mainPc, bindResult, bindFd, listener, nAcc >>
    /\ UNCHANGED rcvd
    /\ UNCHANGED << peerVars, unitVars, parserVars, writerVars >>

\* accept, where the loop takes no connection while another is in flight
Accepted_capped(c, fd) ==
    /\ mainPc = "accept"
    /\ SockAt(fdTable, bindFd) = ListenSock
    /\ \A d \in Conns : pc[d] \notin {"read", "write", "drop"}
    /\ nAcc < nConn
    /\ c = nAcc + 1
    /\ fd = LowestFree(fdTable)
    /\ nAcc' = c
    /\ fdOf' = [fdOf EXCEPT ![c] = fd]
    /\ lastAccept' = "ok"

\* libc::accept on listener.fd returned a descriptor for the next pending peer
Accepted(c, fd) ==
    /\ mainPc = "accept"
    /\ SockAt(fdTable, bindFd) = ListenSock
    /\ nAcc < nConn
    /\ c = nAcc + 1
    /\ fd = LowestFree(fdTable)
    /\ nAcc' = c
    /\ fdOf' = [fdOf EXCEPT ![c] = fd]
    /\ lastAccept' = "ok"

\* Ok(stream) => { thread::spawn(|| { handle_connection(stream); }); }
AcceptOk ==
    /\ \E c \in Conns, fd \in FdNums :
          /\ Accepted(c, fd)
          /\ fdTable' = [fdTable EXCEPT ![fd] = c]
          /\ pc' = [pc EXCEPT ![c] = "read"]
          /\ users' = [users EXCEPT ![ListenSock] = @ \cup {MainThread}]
    /\ UNCHANGED << addr, mainPc, bindResult, bindFd, listener, acceptFailed >>
    /\ UNCHANGED << closeCalls, stray, rcvd, bytes_read, status, total_written, wres >>
    /\ UNCHANGED << peerVars, parserVars, writerVars >>

\* thread::spawn panics when the OS cannot create the thread; the closure, and
\* with it the stream, is dropped first, and the panic unwinds main
AcceptSpawnFail ==
    /\ \E c \in Conns, fd \in FdNums :
          /\ Accepted(c, fd)
          /\ closeCalls' = [closeCalls EXCEPT ![c] = @ + 1]
          /\ users' = [users EXCEPT ![ListenSock] = @ \cup {MainThread},
                                    ![c] = @ \cup {MainThread}]
          /\ pc' = [pc EXCEPT ![c] = "nospawn"]
    /\ mainPc' = "panicked"
    /\ UNCHANGED << addr, bindResult, bindFd, listener, acceptFailed >>
    /\ UNCHANGED << fdTable, stray, rcvd, bytes_read, status, total_written, wres >>
    /\ UNCHANGED << peerVars, parserVars, writerVars >>

\* Err(e) => { eprintln!(..) }: the loop goes round
AcceptFail ==
    /\ mainPc = "accept"
    /\ acceptFailed' = TRUE
    /\ lastAccept' = "err"
    /\ users' = [users EXCEPT ![ListenSock] = @ \cup {MainThread}]
    /\ UNCHANGED << addr, mainPc, bindResult, bindFd, listener, nAcc >>
    /\ UNCHANGED << fdTable, closeCalls, stray, rcvd >>
    /\ UNCHANGED << peerVars, unitVars, parserVars, writerVars >>

\* the panic unwinds main: a listener it owns is dropped (impl Drop: close)
UnwindMain ==
    /\ mainPc = "panicked"
    /\ mainPc' = "unwound"
    /\ listener' = FALSE
    /\ IF listener
       THEN OsClose(MainThread, bindFd)
       ELSE UNCHANGED << fdTable, closeCalls, users, stray >>
    /\ UNCHANGED << addr, bindResult, bindFd, nAcc, acceptFailed, lastAccept, rcvd >>
    /\ UNCHANGED << peerVars, unitVars, parserVars, writerVars >>

\* the main thread has panicked: the process exits, every descriptor it still
\* holds is released by the OS and its threads are gone
ProcessExit ==
    /\ mainPc = "unwound"
    /\ mainPc' = "exited"
    /\ fdTable' = [f \in FdNums |-> Free]
    /\ UNCHANGED << addr, bindResult, bindFd, listener, nAcc, acceptFailed, lastAccept >>
    /\ UNCHANGED << closeCalls, users, stray, rcvd >>
    /\ UNCHANGED << peerVars, unitVars, parserVars, writerVars >>

(***************************************************************************)
(* The peers (the environment of the server).                              *)
(***************************************************************************)
\* a peer completes a connection to the listening socket and joins its backlog
PeerConnect ==
    /\ Alive
    /\ listener
    /\ nConn < MaxConn
    /\ nConn' = nConn + 1
    /\ \E r \in Requests : req' = [req EXCEPT ![nConn + 1] = r]
    /\ UNCHANGED << avail, peer >>
    /\ UNCHANGED << mainVars, unitVars, parserVars, writerVars >>
    /\ UNCHANGED << fdTable, closeCalls, users, stray, rcvd >>

\* the peer's connection exists and the server has not yet finished its read
BeforeRead(c) == c <= nConn /\ pc[c] \in {"none", "read"}

\* the lengths at which the arrival of a request may pause
ArrivalPoints(r) == {n \in {SegLen, Len(r)} : 1 <= n /\ n <= Len(r)}

\* more bytes of the peer's request arrive at the server
PeerSend(c) ==
    /\ Alive
    /\ BeforeRead(c)
    /\ peer[c] = "idle"
    /\ \E n \in ArrivalPoints(req[c]) :
          /\ n > avail[c]
          /\ avail' = [avail EXCEPT ![c] = n]
    /\ UNCHANGED << nConn, req, peer >>
    /\ UNCHANGED << mainVars, unitVars, parserVars, writerVars >>
    /\ UNCHANGED << fdTable, closeCalls, users, stray, rcvd >>

\* the peer closes its side (how = "fin") or resets the connection ("rst")
\* before any byte of its request has arrived; later, a read returns the bytes
\* that arrived whatever the peer does
PeerEnds(c, how) ==
    /\ Alive
    /\ BeforeRead(c)
    /\ peer[c] = "idle"
    /\ avail[c] = 0
    /\ peer' = [peer EXCEPT ![c] = how]
    /\ UNCHANGED << nConn, req, avail >>
    /\ UNCHANGED << mainVars, unitVars, parserVars, writerVars >>
    /\ UNCHANGED << fdTable, closeCalls, users, stray, rcvd >>

PeerClose(c) == PeerEnds(c, "fin")
PeerReset(c) == PeerEnds(c, "rst")

(***************************************************************************)
(* handle_connection, one thread per accepted connection.                  *)
(***************************************************************************)
\* the responses, where the 400 response announces the length of the 200 body
Response_stale_length(st) ==
    IF st = 200 THEN OkResponse
    ELSE << "H", "T", "T", "P", "/", "1", ".", "1", " ", "4", "0", "0", " ", "B", "a", "d",
         " ", "R", "e", "q", "u", "e", "s", "t", "CR", "LF" >>
         \o FixedHeaders \o Decimal(Len(OkBody)) \o CRLF \o CRLF \o BadRequestBody

\* response.as_bytes() of send_ok_response (200), of send_bad_request_response
Response(st) == IF st = 200 THEN OkResponse ELSE BadRequestResponse

\* the match of handle_connection on the parser's result, with every parser
\* error answered like a success
StatusFor_always_ok(parsed) == 200

\* Ok(..) => send_ok_response, Err(_) => send_bad_request_response
StatusFor(parsed) == IF parsed.ok THEN 200 ELSE 400

\* the byte strings a read can return: the prefixes of what a peer sends
ReadableBytes ==
    UNION {{SubSeq(r, 1, n) : n \in 0..Min(Len(r), BufSize)} : r \in Requests}

\* handle_connection from the bytes of its read to the response it sends:
\* from_utf8_lossy, parse_request, and the match on the result
ChosenStatus == [b \in ReadableBytes |-> StatusFor(parse_request(from_utf8_lossy(b)))]

\* libc::read has something to return: data, end of stream, or an error
ReadReady(s) == s = Free \/ avail[s] > 0 \/ peer[s] # "idle"

\* the value libc::read returns on socket s for a buffer of BufSize bytes
OsRead(s) ==
    IF s = Free \/ peer[s] = "rst" THEN -1
    ELSE Min(avail[s], BufSize)

\* Err(e) => { eprintln!(..) } where the process is ended instead
ReadErr_exits(c) ==
    /\ pc' = [pc EXCEPT ![c] = "drop"]
    /\ mainPc' = "exited"
    /\ UNCHANGED << addr, bindResult, bindFd, listener, nAcc, acceptFailed, lastAccept >>
    /\ UNCHANGED status

\* Err(e) => { eprintln!(..) } where a 400 response is sent after the log
ReadErr_responds(c) ==
    /\ pc' = [pc EXCEPT ![c] = "write"]
    /\ status' = [status EXCEPT ![c] = 400]
    /\ UNCHANGED mainVars

\* Err(e) => { eprintln!(..) }: the error is logged and the function ends
ReadErr(c) ==
    /\ pc' = [pc EXCEPT ![c] = "drop"]
    /\ UNCHANGED mainVars
    /\ UNCHANGED status

\* Ok(bytes_read) => the bytes are decoded and parsed and the response chosen
ReadOk(c, bytes) ==
    /\ pc' = [pc EXCEPT ![c] = "write"]
    /\ status' = [status EXCEPT ![c] = ChosenStatus[bytes]]
    /\ UNCHANGED mainVars

\* stream.read(&mut buffer) returns, and handle_connection matches on the result
Read(c) ==
    /\ Alive
    /\ pc[c] = "read"
    /\ LET s == SockAt(fdTable, fdOf[c])
           n == OsRead(s)
       IN  /\ s # ListenSock
           /\ ReadReady(s)
           /\ bytes_read' = [bytes_read EXCEPT ![c] = n]
           /\ IF s = Free
              THEN stray' = TRUE /\ UNCHANGED users
              ELSE users' = [users EXCEPT ![s] = @ \cup {c}] /\ UNCHANGED stray
           /\ IF n < 0 THEN ReadErr(c) ELSE ReadOk(c, SubSeq(req[s], 1, n))
    /\ UNCHANGED << fdOf, total_written, wres >>
    /\ UNCHANGED << peerVars, parserVars, writerVars >>
    /\ UNCHANGED << fdTable, closeCalls, rcvd >>

\* what libc::write may return when asked to send `remaining` bytes on socket s
WriteResults(s, remaining) ==
    IF s = Free THEN {-1}
    ELSE {-1, 0, Min(WriteChunk, remaining), remaining}

\* one round of the loop of write_all on the chosen response, and the loop's
\* exit test after it
Write(c) ==
    /\ Alive
    /\ pc[c] = "write"
    /\ LET buf == Response(status[c])
           s == SockAt(fdTable, fdOf[c])
           t == total_written[c]
       IN  \E r \in WriteResults(s, Len(buf) - t) :
              /\ IF s = Free
                 THEN stray' = TRUE /\ UNCHANGED users
                 ELSE users' = [users EXCEPT ![s] = @ \cup {c}] /\ UNCHANGED stray
              /\ IF r < 0
                 THEN /\ wres' = [wres EXCEPT ![c] = "err"]
                      /\ pc' = [pc EXCEPT ![c] = "drop"]
                      /\ UNCHANGED << total_written, rcvd >>
                 ELSE /\ total_written' = [total_written EXCEPT ![c] = t + r]
                      /\ rcvd' = [rcvd EXCEPT ![s] = @ \o SubSeq(buf, t + 1, t + r)]
                      /\ IF t + r < Len(buf)
                         THEN UNCHANGED << wres, pc >>
                         ELSE /\ wres' = [wres EXCEPT ![c] = "ok"]
                              /\ pc' = [pc EXCEPT ![c] = "drop"]
    /\ UNCHANGED << fdOf, bytes_read, status >>
    /\ UNCHANGED << mainVars, peerVars, parserVars, writerVars >>
    /\ UNCHANGED << fdTable, closeCalls >>

\* handle_connection ends without dropping the stream
Drop_forgets(c) ==
    /\ Alive
    /\ pc[c] = "drop"
    /\ pc' = [pc EXCEPT ![c] = "done"]
    /\ UNCHANGED << fdOf, bytes_read, status, total_written, wres >>
    /\ UNCHANGED << mainVars, peerVars, parserVars, writerVars >>
    /\ UNCHANGED << fdTable, closeCalls, users, stray, rcvd >>

\* the drop of the stream, where a thread that has returned closes its
\* descriptor number once more
Drop_again(c) ==
    /\ Alive
    /\ pc[c] \in {"drop", "done"}
    /\ OsClose(c, fdOf[c])
    /\ pc' = [pc EXCEPT ![c] = "done"]
    /\ UNCHANGED << fdOf, bytes_read, status, total_written, wres >>
    /\ UNCHANGED << mainVars, peerVars, parserVars, writerVars >>
    /\ UNCHANGED rcvd

\* handle_connection ends: stream is dropped (impl Drop for RawTcpStream: close)
Drop(c) ==
    /\ Alive
    /\ pc[c] = "drop"
    /\ OsClose(c, fdOf[c])
    /\ pc' = [pc EXCEPT ![c] = "done"]
    /\ UNCHANGED << fdOf, bytes_read, status, total_written, wres >>
    /\ UNCHANGED << mainVars, peerVars, parserVars, writerVars >>
    /\ UNCHANGED rcvd

(***************************************************************************)
(* The server with its peers.                                              *)
(***************************************************************************)
MainStep ==
    \/ ParseAddr
    \/ Socket
    \/ SetSockOpt
    \/ MatchAddr
    \/ Bind
    \/ Listen
    \/ AcceptOk
    \/ AcceptSpawnFail
    \/ AcceptFail
    \/ UnwindMain
    \/ ProcessExit

UnitStep(c) == Read(c) \/ Write(c) \/ Drop(c)

PeerStep == PeerConnect \/ \E c \in Conns : PeerSend(c) \/ PeerClose(c) \/ PeerReset(c)

Next == MainStep \/ PeerStep \/ \E c \in Conns : UnitStep(c)

Spec == Init /\ [][Next]_vars

\* the scheduler runs every thread that can take a step; the peers owe nothing
FairSpec == Spec /\ WF_vars(MainStep) /\ \A c \in Conns : WF_vars(UnitStep(c))

(***************************************************************************)
(* The parser on its own: parse_request applied to one input.              *)
(***************************************************************************)
\* characters a token is made of, and characters that separate tokens
TokenChars == {"G", "/", "uFFFD"}
Alphabet == TokenChars \cup {" ", "CR", "LF"}

RECURSIVE StringsUpTo(_, _)
StringsUpTo(chars, n) ==
    IF n = 0 THEN {<< >>}
    ELSE LET shorter == StringsUpTo(chars, n - 1) IN
         shorter \cup {Append(s, ch) : s \in shorter, ch \in chars}

Tokens == StringsUpTo(TokenChars, MaxTokLen) \ {<< >>}

Http11 == << "H", "T", "T", "P", "/", "1", ".", "1" >>

\* "\r\nHost: x\r\n\r\n"
Tails_Headers == CRLF \o << "H", "o", "s", "t", ":", " ", "x" >> \o CRLF \o CRLF

\* what may follow the first line: nothing, or a line ending and more text
Tails ==
    {<< >>, << "LF" >>, CRLF, CRLF \o CRLF, << "LF", "G", " ", "/" >>, Tails_Headers}

\* "<METHOD> <PATH> HTTP/1.1" and what follows it
RequestOf(method, path, tail) == method \o << " " >> \o path \o << " " >> \o Http11 \o tail

WellFormed == {RequestOf(m, p, t) : m \in Tokens, p \in Tokens, t \in Tails}

\* "G / G" in other shapes: after an empty first line, with a fourth token,
\* with runs of blanks and a tab between and around the tokens, and cut short
\* after the second token by the end of the line
EdgeInputs ==
    {<< "LF", "G", " ", "/", " ", "G" >>,
     << "CR", "LF", "G", " ", "/", " ", "G" >>,
     << "G", " ", "/", " ", "G", " ", "G" >>,
     << " ", "G", " ", " ", "/", "TAB", "G", " " >>,
     << "G", " ", "/", "LF", "G", " ", "/", " ", "G" >>,
     << "G", " ", "/", "CR", "LF", "G" >>}

ParserInputs == WellFormed \cup StringsUpTo(Alphabet, MaxReqLen) \cup EdgeInputs

ParserInit ==
    /\ addr = "V4"
    /\ ServerInit
    /\ pin \in ParserInputs
    /\ pres = NoResult
    /\ WriterIdle

ParserCall ==
    /\ pres = NoResult
    /\ pres' = parse_request(pin)
    /\ UNCHANGED pin
    /\ UNCHANGED << mainVars, peerVars, unitVars, writerVars >>
    /\ UNCHANGED << fdTable, closeCalls, users, stray, rcvd >>

ParserSpec == ParserInit /\ [][ParserCall]_vars

(***************************************************************************)
(* write_all on its own: one call, one libc::write at a time.              *)
(***************************************************************************)
\* the buffers the program hands to write_all
WriteBuffers == {OkResponse, BadRequestResponse}

\* what libc::write may return when given a length of len: -1 for an error,
\* or the number of bytes it took, from none to all of them
OsWriteResults(len) == {-1} \cup (0..len)

WriteAllInit ==
    /\ addr = "V4"
    /\ ServerInit
    /\ pin = << >>
    /\ pres = NoResult
    /\ wbuf \in WriteBuffers
    /\ wpos = "loop"
    /\ wtotal = 0
    /\ woff = 0
    /\ wlen = 0
    /\ wsent = << >>
    /\ wfailed = FALSE

\* the loop test, where every libc::write is given the buffer from its start
WriteAllLoop_from_start ==
    /\ wpos = "loop"
    /\ IF wtotal < Len(wbuf)
       THEN /\ wpos' = "oswrite"
            /\ woff' = 0
            /\ wlen' = Len(wbuf) - wtotal
       ELSE /\ wpos' = "Ok"
            /\ UNCHANGED << woff, wlen >>
    /\ UNCHANGED << wbuf, wtotal, wsent, wfailed >>
    /\ UNCHANGED << mainVars, peerVars, unitVars, parserVars >>
    /\ UNCHANGED << fdTable, closeCalls, users, stray, rcvd >>

\* while total_written < buf.len() { libc::write(fd, buf[total_written..], ..) }
\* and Ok(()) after the loop
WriteAllLoop ==
    /\ wpos = "loop"
    /\ IF wtotal < Len(wbuf)
       THEN /\ wpos' = "oswrite"
            /\ woff' = wtotal
            /\ wlen' = Len(wbuf) - wtotal
       ELSE /\ wpos' = "Ok"
            /\ UNCHANGED << woff, wlen >>
    /\ UNCHANGED << wbuf, wtotal, wsent, wfailed >>
    /\ UNCHANGED << mainVars, peerVars, unitVars, parserVars >>
    /\ UNCHANGED << fdTable, closeCalls, users, stray, rcvd >>

\* libc::write returns: if bytes_written < 0 { return Err(..) };
\* total_written += bytes_written
WriteAllOsWrite ==
    /\ wpos = "oswrite"
    /\ \E r \in OsWriteResults(wlen) :
          IF r < 0
          THEN /\ wpos' = "Err"
               /\ wfailed' = TRUE
               /\ UNCHANGED << wtotal, wsent >>
          ELSE /\ wpos' = "loop"
               /\ wtotal' = wtotal + r
               /\ wsent' = wsent \o SubSeq(wbuf, woff + 1, woff + r)
               /\ UNCHANGED wfailed
    /\ woff' = 0
    /\ wlen' = 0
    /\ UNCHANGED wbuf
    /\ UNCHANGED << mainVars, peerVars, unitVars, parserVars >>
    /\ UNCHANGED << fdTable, closeCalls, users, stray, rcvd >>

WriteAllNext == WriteAllLoop \/ WriteAllOsWrite

\* the thread in write_all keeps running; what libc::write returns is up to
\* the OS
WriteAllSpec == WriteAllInit /\ [][WriteAllNext]_vars /\ WF_vars(WriteAllNext)

(***************************************************************************)
(* Properties of the server.                                               *)
(***************************************************************************)
\* connections whose handle_connection has started and not yet returned
InFlight == {c \in Conns : pc[c] \in {"read", "write", "drop"}}

\* descriptor numbers that are open in the process
OpenFds == {f \in FdNums : fdTable[f] # Free}

\* connection c's thread is blocked in read: nothing for it to return yet
BlockedInRead(c) == pc[c] = "read" /\ avail[c] = 0 /\ peer[c] = "idle"

\* C1, as stated: every connection handle returned by a successful accept is
\* eventually closed, exactly once, whichever path its thread takes (a handle
\* released by the exit of the process is counted as closed here).
C1_EventuallyClosedOnce ==
    \A c \in Conns :
        (fdOf[c] # -1) ~> ((closeCalls[c] = 1 /\ SockAt(fdTable, fdOf[c]) # c)
                           \/ mainPc = "exited")

\* C1, amended: a connection handle is closed exactly once, by the drop that
\* ends its owner (its thread on the 200, 400, read-error and write-error
\* paths, the spawn closure when no thread could be created): while the
\* process runs it is open, under a descriptor number of its own, for as long
\* as its thread has not finished; it has been closed once when the thread
\* has finished; no close is ever issued on a number that is not open. A
\* handle whose thread never finishes is not closed (the exit of the process
\* releases it).
C1_ClosedOnceWhenUnitEnds ==
    /\ ~stray
    /\ \A c \in Conns :
          /\ closeCalls[c] <= 1
          /\ pc[c] = "none" => closeCalls[c] = 0
          /\ c \in InFlight => closeCalls[c] = 0 /\ (Alive => SockAt(fdTable, fdOf[c]) = c)
          /\ pc[c] \in {"done", "nospawn"} =>
                /\ closeCalls[c] = 1
                /\ \A f \in FdNums : fdTable[f] # c

\* C1 witness: one connection has gone the whole 200 path and another has ended
\* on a read error, and each handle has been closed once.
C1_Witness ==
    \E c, d \in Conns :
        /\ pc[c] = "done" /\ status[c] = 200 /\ wres[c] = "ok" /\ closeCalls[c] = 1
        /\ pc[d] = "done" /\ bytes_read[d] = -1 /\ closeCalls[d] = 1

\* C2, as stated: after a successful bind the process has 1 + (connections in
\* flight) sockets open, so 1 when every accepted connection has completed.
C2_OpenHandles ==
    bindResult = "Ok" => Cardinality(OpenFds) = 1 + Cardinality(InFlight)

\* C3: a failing accept changes nothing but the record of its result: the loop
\* is at accept again, on the same open listening socket, no descriptor was
\* created or closed, no thread was spawned; and while the loop is at accept
\* with a peer pending, however many accepts have failed, accept can succeed.
C3_FailedAcceptKeepsListening ==
    /\ [][(lastAccept # "err" /\ lastAccept' = "err") =>
            /\ mainPc = "accept" /\ mainPc' = "accept"
            /\ listener' /\ bindFd' = bindFd
            /\ SockAt(fdTable', bindFd') = ListenSock
            /\ fdTable' = fdTable /\ closeCalls' = closeCalls
            /\ pc' = pc /\ fdOf' = fdOf /\ nAcc' = nAcc /\ nConn' = nConn]_vars
    /\ [](mainPc = "accept" /\ acceptFailed /\ nAcc < nConn => ENABLED AcceptOk)

\* C3 witness: accept has failed, and the latest accept succeeded and its
\* connection was handed to a thread.
C3_Witness ==
    /\ acceptFailed
    /\ lastAccept = "ok"
    /\ mainPc = "accept"
    /\ nAcc > 0 /\ pc[nAcc] = "read"

\* a step in which connection c's thread meets or ends on an error: its read
\* fails, its request does not parse, its write fails, or it returns after one
ErrorStep(c) ==
    /\ pc'[c] # pc[c]
    /\ pc[c] \in {"read", "write", "drop"}
    /\ bytes_read'[c] = -1 \/ status'[c] = 400 \/ wres'[c] = "err"

\* C4: a read, parse or write error of one connection's thread changes
\* neither where the main thread is (it stays in the accept loop, the
\* listening socket open) nor the handle, the progress, the response or the
\* bytes sent of any other connection.
C4_ErrorsStayInUnit ==
    [][\A c \in Conns : ErrorStep(c) =>
          /\ mainPc' = mainPc /\ listener' = listener /\ bindFd' = bindFd
          /\ SockAt(fdTable', bindFd) = SockAt(fdTable, bindFd)
          /\ nAcc' = nAcc
          /\ \A d \in Conns \ {c} :
                /\ pc'[d] = pc[d] /\ fdOf'[d] = fdOf[d]
                /\ bytes_read'[d] = bytes_read[d] /\ status'[d] = status[d]
                /\ total_written'[d] = total_written[d] /\ wres'[d] = wres[d]
                /\ rcvd'[d] = rcvd[d] /\ closeCalls'[d] = closeCalls[d]
                /\ \A f \in FdNums : (fdTable'[f] = d) <=> (fdTable[f] = d)]_vars

\* C4 witness: one connection ended on a read error and another on a write
\* error, and the loop is still at accept.
C4_Witness ==
    \E c, d \in Conns :
        /\ pc[c] = "done" /\ bytes_read[c] = -1
        /\ pc[d] = "done" /\ wres[d] = "err"
        /\ mainPc = "accept"

\* C5: whatever the connection threads are doing, the loop at accept with a
\* peer pending can accept it and hand it to a new thread.
C5_AcceptNeverWaits ==
    mainPc = "accept" /\ nAcc < nConn => ENABLED AcceptOk

\* C5 witness: a thread is blocked in read, and a connection accepted after
\* its own has been handed to a thread of its own.
C5_Witness ==
    \E c, d \in Conns :
        /\ c < d
        /\ BlockedInRead(c)
        /\ pc[d] \in {"read", "write"}
        /\ mainPc = "accept"

\* the first n elements of s
Prefix(s, n) == SubSeq(s, 1, n)

\* peer c sent its whole GET and stayed connected, and its thread has returned
SentGetAndServed(c) == pc[c] = "done" /\ req[c] = GetRoot /\ peer[c] = "idle"

\* C6, as stated: under any interleaving each handle is used by its own thread
\* only, every byte goes to the socket the request was read from, and each
\* client that sent a valid GET receives exactly one complete 200 response.
C6_EveryGetGets200 ==
    \A c \in Conns :
        /\ users[c] \subseteq {c, MainThread}
        /\ SentGetAndServed(c) => rcvd[c] = OkResponse

\* C6, amended: under any interleaving each handle is used by its own thread
\* only from spawn to close (the main thread touches it only to drop it when
\* no thread could be created), no two threads in flight hold the same
\* descriptor number, and the bytes a client has received are, in order, the
\* first total_written bytes of the one response its own thread chose, with
\* nothing from another connection: the complete response exactly once when
\* write_all returned Ok, and the 200 response when the thread's one read
\* returned the client's whole valid GET.
C6_NoCrossTalk ==
    /\ ~stray
    /\ rcvd[ListenSock] = << >>
    /\ \A c \in Conns :
          /\ users[c] \subseteq (IF pc[c] = "nospawn" THEN {MainThread} ELSE {c})
          /\ \A d \in Conns : (Alive /\ c \in InFlight /\ d \in InFlight /\ c # d) => fdOf[c] # fdOf[d]
          /\ status[c] = 0 => rcvd[c] = << >> /\ total_written[c] = 0
          /\ status[c] # 0 => rcvd[c] = Prefix(Response(status[c]), total_written[c])
          /\ wres[c] = "ok" => rcvd[c] = Response(status[c])
          /\ bytes_read[c] = Len(GetRoot) /\ req[c] = GetRoot => status[c] = 200
          /\ (bytes_read[c] = Len(GetRoot) /\ req[c] = GetRoot /\ wres[c] = "ok")
                => rcvd[c] = OkResponse

\* C6 witness: two clients sent a valid GET; the thread of the later one has
\* delivered its whole 200 response and returned while the thread of the
\* earlier one is part way through writing its own.
C6_Witness ==
    \E c, d \in Conns :
        /\ c < d
        /\ pc[c] = "write" /\ status[c] = 200
        /\ 0 < total_written[c] /\ total_written[c] < Len(OkResponse)
        /\ pc[d] = "done" /\ wres[d] = "ok" /\ rcvd[d] = OkResponse

\* C7, as stated: when bind does not return a listener, whether an OS step
\* failed or it left otherwise, the descriptor made by socket() has been closed
\* exactly once (and nothing was closed when socket() itself failed), so no
\* descriptor is open and no listener exists.
C7_BindReleasesOnFailure ==
    bindResult \in {"Err", "Panic"} /\ mainPc = "panicked" =>
        /\ ~listener
        /\ OpenFds = {}
        /\ closeCalls[ListenSock] = (IF bindFd = -1 THEN 0 ELSE 1)
        /\ ~stray

\* C8, as stated: once bind has succeeded nothing ends the process or takes
\* the main thread out of its accept loop.
C8_OnlyBindFailureIsFatal ==
    bindResult = "Ok" => mainPc = "accept" /\ listener

\* C13, as stated: bind called with an IPv6 endpoint comes back to its caller
\* with an error value; it does not panic.
C13_IPv6IsAnErrorValue ==
    (addr = "V6" /\ bindResult # "none") => bindResult = "Err"

\* the status handle_connection must choose for the bytes b its read returned:
\* 200 when the first line of b has three tokens or more, 400 otherwise
ExpectedStatus(b) ==
    IF b # << >> /\ Len(split_whitespace(lines(from_utf8_lossy(b))[1])) >= 3
    THEN 200 ELSE 400

\* ExpectedStatus, worked out once for every byte string a read can return
ExpectedStatusOf == [b \in ReadableBytes |-> ExpectedStatus(b)]

\* C9: the response of a connection is decided by the bytes its one read
\* returned: 200 exactly when they parse, 400 for every parser failure (zero
\* bytes and a first line of a single token among them); nothing is sent after
\* a failed read, and the bytes on the wire are always the beginning of the
\* 200 response or of the one 400 response.
C9_StatusFromReadBytes ==
    \A c \in Conns :
        /\ status[c] \in {0, 200, 400}
        /\ bytes_read[c] < 0 => status[c] = 0 /\ rcvd[c] = << >>
        /\ bytes_read[c] >= 0 => status[c] = ExpectedStatusOf[Prefix(req[c], bytes_read[c])]
        /\ bytes_read[c] = 0 => status[c] = 400
        /\ (bytes_read[c] > 0 /\ \A i \in 1..bytes_read[c] : req[c][i] \notin WhiteSpace)
              => status[c] = 400
        /\ status[c] = 200 => rcvd[c] = Prefix(OkResponse, total_written[c])
        /\ status[c] = 400 => rcvd[c] = Prefix(BadRequestResponse, total_written[c])

\* C9 witness: one read returned zero bytes, another a single token, and both
\* clients hold the same complete 400 response.
C9_Witness ==
    \E c, d \in Conns :
        /\ bytes_read[c] = 0 /\ wres[c] = "ok" /\ rcvd[c] = BadRequestResponse
        /\ bytes_read[d] > 0 /\ Len(split_whitespace(Prefix(req[d], bytes_read[d]))) = 1
        /\ wres[d] = "ok" /\ rcvd[d] = BadRequestResponse

\* C14, as stated: every thread that has returned has gone read, parse,
\* render, write_all, close: one read, one response chosen, one write_all call
\* that returned, and the close, also when the read or the write failed.
C14_UnconditionalSequence ==
    \A c \in Conns :
        pc[c] = "done" =>
            /\ bytes_read[c] # -2
            /\ status[c] # 0
            /\ wres[c] # "none"
            /\ closeCalls[c] = 1

\* where thread c is in the order read, parse and render, write_all, close
C14_Order(c) ==
    /\ pc[c] \in {"none", "read"} =>
          /\ bytes_read[c] = -2 /\ status[c] = 0 /\ wres[c] = "none"
          /\ total_written[c] = 0 /\ users[c] = {}
    /\ pc[c] = "write" =>
          /\ bytes_read[c] >= 0 /\ status[c] \in {200, 400} /\ wres[c] = "none"
    /\ pc[c] \in {"drop", "done"} =>
          \/ /\ bytes_read[c] = -1 /\ status[c] = 0 /\ wres[c] = "none"
             /\ total_written[c] = 0 /\ rcvd[c] = << >>
          \/ /\ bytes_read[c] >= 0 /\ status[c] \in {200, 400} /\ wres[c] \in {"ok", "err"}
    /\ c \in InFlight => closeCalls[c] = 0
    /\ pc[c] = "done" => closeCalls[c] = 1

\* C14, amended: a thread issues one read on its handle. When the read
\* succeeds it parses, chooses one response and makes one write_all call with
\* it, then closes the handle, whether write_all returned Ok or Err. When the
\* read fails it neither parses nor writes: it closes the handle at once. The
\* close is the last operation on the handle in both cases, and it comes
\* whenever the thread returns.
C14_ReadThenWriteUnlessReadFailed ==
    /\ [](\A c \in Conns : C14_Order(c))
    /\ [][\A c \in Conns :
            /\ bytes_read'[c] # bytes_read[c] => pc[c] = "read" /\ bytes_read[c] = -2
            /\ status'[c] # status[c] =>
                  /\ status[c] = 0 /\ pc[c] = "read" /\ pc'[c] = "write"
                  /\ bytes_read'[c] >= 0
            /\ (pc[c] = "read" /\ bytes_read'[c] = -1) => pc'[c] = "drop"
            /\ wres'[c] # wres[c] =>
                  /\ wres[c] = "none" /\ pc[c] = "write" /\ pc'[c] = "drop"
            /\ rcvd'[c] # rcvd[c] => pc[c] = "write"
            /\ (closeCalls'[c] # closeCalls[c] /\ pc[c] # "none") =>
                  /\ pc[c] = "drop" /\ pc'[c] = "done"
            /\ pc[c] = "done" =>
                  /\ pc'[c] = "done" /\ users'[c] = users[c] /\ rcvd'[c] = rcvd[c]
                  /\ closeCalls'[c] = closeCalls[c]]_vars

\* C14 witness: one thread has returned after a failed read, having sent
\* nothing, and another after a write_all that failed part way; both handles
\* have been closed.
C14_Witness ==
    \E c, d \in Conns :
        /\ pc[c] = "done" /\ bytes_read[c] = -1 /\ wres[c] = "none" /\ closeCalls[c] = 1
        /\ pc[d] = "done" /\ wres[d] = "err" /\ total_written[d] > 0 /\ closeCalls[d] = 1

\* C17, as stated: while a peer that has connected neither sends nor closes,
\* no step closes its connection's handle or takes its thread out of read:
\* after every step that leaves the peer silent the thread is still in read and
\* the handle still open under its descriptor number, never closed.
C17_IdlePeerHoldsUnit ==
    [][\A c \in Conns :
          (/\ BlockedInRead(c) /\ SockAt(fdTable, fdOf[c]) = c
           /\ avail'[c] = 0 /\ peer'[c] = "idle")
          => /\ pc'[c] = "read"
             /\ fdOf'[c] = fdOf[c]
             /\ SockAt(fdTable', fdOf'[c]) = c
             /\ closeCalls'[c] = 0]_vars

\* C18: the listening socket is operated on by the main thread only: no
\* connection thread holds its descriptor number, reads from it, writes to it
\* or closes it. While the loop is at accept the socket is open under
\* listener.fd and has never been closed; it is closed at most once, by the
\* main thread, and only after the loop has been left.
C18_ListenerUsedByLoopOnly ==
    /\ [](/\ users[ListenSock] \subseteq {MainThread}
          /\ rcvd[ListenSock] = << >>
          /\ closeCalls[ListenSock] <= 1
          /\ mainPc = "accept" =>
                /\ listener /\ closeCalls[ListenSock] = 0
                /\ SockAt(fdTable, bindFd) = ListenSock
          /\ \A c \in Conns : (Alive /\ listener /\ pc[c] # "none") => fdOf[c] # bindFd
          /\ \A f \in FdNums : fdTable[f] = ListenSock => f = bindFd)
    /\ [][/\ closeCalls'[ListenSock] # closeCalls[ListenSock] =>
                /\ mainPc \in {"setsockopt", "bind", "listen", "panicked"}
                /\ mainPc' # "accept"
                /\ unitVars' = unitVars
          /\ (bindResult = "Ok" /\ users'[ListenSock] # users[ListenSock]) =>
                /\ mainPc = "accept"
                /\ users'[ListenSock] = {MainThread}]_vars

\* C18 witness: accept has failed, a connection thread has run to its end, and
\* the main thread, out of its loop, has closed the listening socket, once.
C18_Witness ==
    /\ bindResult = "Ok"
    /\ acceptFailed
    /\ mainPc = "unwound"
    /\ closeCalls[ListenSock] = 1
    /\ users[ListenSock] = {MainThread}
    /\ \E c \in Conns : pc[c] = "done" /\ wres[c] = "ok"

\* C19: the server sets no bound on the threads alive at once: whatever the
\* number of connections in flight, when the loop is at accept and a peer is
\* pending, the step that accepts it and spawns its thread is possible and
\* leaves one more connection in flight, none of the others having finished.
\* So for every K a state with K connections in flight, all accepted, is
\* reached as soon as K peers have connected.
C19_OneMoreUnitAlways ==
    (mainPc = "accept" /\ nAcc < nConn) =>
        ENABLED (/\ AcceptOk
                 /\ InFlight \subseteq InFlight'
                 /\ Cardinality(InFlight') = Cardinality(InFlight) + 1)

\* C19 witness: as many connections as the model has peers are in flight at
\* once, each blocked in read under a descriptor of its own.
C19_Witness ==
    /\ nAcc = MaxConn
    /\ \A c \in Conns : BlockedInRead(c) /\ SockAt(fdTable, fdOf[c]) = c
    /\ Cardinality(InFlight) = MaxConn

\* C20: no OS call is ever issued on a descriptor number that is not open; a
\* thread operates on the socket of its own connection only, so a thread that
\* has closed its descriptor never reads from, writes to or closes the socket
\* of a later connection that was given the same number; a connection in
\* flight keeps its socket open under its number. The close at the end of a
\* thread frees that thread's number and nothing else, and a thread that has
\* returned issues no further call.
C20_NoUseAfterClose ==
    /\ [](/\ ~stray
          /\ \A c, d \in Conns : c # d => c \notin users[d]
          /\ \A d \in Conns :
                (Alive /\ d \in InFlight) =>
                    /\ SockAt(fdTable, fdOf[d]) = d
                    /\ closeCalls[d] = 0)
    /\ [][\A c \in Conns :
            /\ (pc[c] = "drop" /\ pc'[c] = "done") =>
                  /\ closeCalls' = [closeCalls EXCEPT ![c] = 1]
                  /\ fdTable' = [fdTable EXCEPT ![fdOf[c]] = Free]
            /\ pc[c] = "done" =>
                  /\ pc'[c] = "done"
                  /\ fdOf'[c] = fdOf[c]
                  /\ \A s \in SockIds : c \in users'[s] => c \in users[s]
                  /\ closeCalls'[c] = closeCalls[c]]_vars

\* C20 witness: a connection was given the descriptor number that an earlier
\* thread had closed, and has been served in full by its own thread alone
\* under that number.
C20_Witness ==
    \E c, d \in Conns :
        /\ c < d
        /\ pc[c] = "done" /\ closeCalls[c] = 1
        /\ fdOf[d] = fdOf[c]
        /\ pc[d] = "done" /\ wres[d] = "ok" /\ rcvd[d] = Response(status[d])
        /\ users[d] = {d} /\ closeCalls[d] = 1

(***************************************************************************)
(* Properties of the responses.                                            *)
(***************************************************************************)
\* pat occurs in s at position i
OccursAt(s, pat, i) ==
    /\ i + Len(pat) - 1 <= Len(s)
    /\ SubSeq(s, i, i + Len(pat) - 1) = pat

\* the first position of s at which pat occurs, 0 when it does not occur
FirstOccurrence(s, pat) ==
    LET at == {i \in 1..Len(s) : OccursAt(s, pat, i)} IN
    IF at = {} THEN 0 ELSE CHOOSE i \in at : \A j \in at : i <= j

\* s cut at every "CR" "LF"
RECURSIVE SplitCRLF(_)
SplitCRLF(s) ==
    LET i == FirstOccurrence(s, CRLF) IN
    IF i = 0 THEN << s >>
    ELSE << SubSeq(s, 1, i - 1) >> \o SplitCRLF(SubSeq(s, i + 2, Len(s)))

Digits == << "0", "1", "2", "3", "4", "5", "6", "7", "8", "9" >>

\* the number a string of decimal digits denotes, -1 when it is not one
RECURSIVE DecimalValue(_)
DecimalValue(d) ==
    IF d = << >> \/ \E i \in 1..Len(d) : \A k \in 1..10 : Digits[k] # d[i] THEN -1
    ELSE LET last == (CHOOSE k \in 1..10 : Digits[k] = d[Len(d)]) - 1 IN
         IF Len(d) = 1 THEN last
         ELSE 10 * DecimalValue(SubSeq(d, 1, Len(d) - 1)) + last

\* a response as a client reads it: the lines before the first blank line
\* (the status line and the header lines) and the body after it
WireParts(resp) ==
    LET i == FirstOccurrence(resp, CRLF \o CRLF) IN
    IF i = 0 THEN [head |-> << >>, body |-> << >>]
    ELSE [head |-> SplitCRLF(SubSeq(resp, 1, i - 1)),
          body |-> SubSeq(resp, i + 4, Len(resp))]

StatusLine200 ==
    << "H", "T", "T", "P", "/", "1", ".", "1", " ", "2", "0", "0", " ", "O", "K" >>
StatusLine400 ==
    << "H", "T", "T", "P", "/", "1", ".", "1", " ", "4", "0", "0", " ", "B", "a", "d",
    " ", "R", "e", "q", "u", "e", "s", "t" >>
ContentTypeLine ==
    << "C", "o", "n", "t", "e", "n", "t", "-", "T", "y", "p", "e", ":", " ", "t", "e",
    "x", "t", "/", "h", "t", "m", "l", ";", " ", "c", "h", "a", "r", "s", "e", "t",
    "=", "u", "t", "f", "-", "8" >>
ConnectionLine ==
    << "C", "o", "n", "n", "e", "c", "t", "i", "o", "n", ":", " ", "c", "l", "o", "s",
    "e" >>
ContentLengthName ==
    << "C", "o", "n", "t", "e", "n", "t", "-", "L", "e", "n", "g", "t", "h", ":", " " >>

\* a response, read back as a client reads it, is the status line of st, the
\* header lines Content-Type, Connection and Content-Length, a blank line and
\* the HTML body of st, and nothing else; the value of Content-Length is the
\* decimal length of that body
WellFormedWire(st) ==
    LET w == WireParts(Response(st))
        body == IF st = 200 THEN OkBody ELSE BadRequestBody
        n == Len(ContentLengthName)
    IN  /\ Len(w.head) = 4
        /\ w.head[1] = (IF st = 200 THEN StatusLine200 ELSE StatusLine400)
        /\ w.head[2] = ContentTypeLine
        /\ w.head[3] = ConnectionLine
        /\ SubSeq(w.head[4], 1, n) = ContentLengthName
        /\ DecimalValue(SubSeq(w.head[4], n + 1, Len(w.head[4]))) = Len(w.body)
        /\ w.body = body
        /\ Response(st) = w.head[1] \o CRLF \o w.head[2] \o CRLF \o w.head[3] \o CRLF
                          \o w.head[4] \o CRLF \o CRLF \o w.body

\* WellFormedWire, worked out once for each of the two responses
Wire == [st \in {200, 400} |-> WellFormedWire(st)]

\* C12: the bytes a thread hands to write_all are, in this order, the status
\* line of the chosen status, the header lines Content-Type, Connection and
\* Content-Length, a blank line and the HTML body of that status, and the value
\* of Content-Length is the decimal length in bytes of that body (the bodies
\* are ASCII: one byte for each character); a client whose write_all returned
\* Ok holds exactly these bytes.
C12_ContentLengthIsBodyLength ==
    \A c \in Conns :
        /\ status[c] # 0 => Wire[status[c]]
        /\ wres[c] = "ok" => rcvd[c] = Response(status[c])

\* C12 witness: one client holds the complete 200 response and another the
\* complete 400 response.
C12_Witness ==
    \E c, d \in Conns :
        /\ status[c] = 200 /\ wres[c] = "ok" /\ total_written[c] = Len(OkResponse)
        /\ status[d] = 400 /\ wres[d] = "ok" /\ total_written[d] = Len(BadRequestResponse)

(***************************************************************************)
(* Properties of write_all.                                                *)
(***************************************************************************)
\* C15: in a call of write_all, 0 <= total_written <= buf.len() and
\* total_written is the sum of the counts libc::write returned; every
\* libc::write is given exactly the bytes not yet sent (the pointer at offset
\* total_written, the length of the rest, never zero), so what the OS has taken
\* is the first total_written bytes of buf; Ok is returned only when that is
\* all of buf and no write failed; the first failing write ends the call with
\* Err, no write follows it and the bytes taken before it stay taken.
C15_WriteAllAccounting ==
    /\ [](/\ 0 <= wtotal /\ wtotal <= Len(wbuf)
          /\ Len(wsent) = wtotal
          /\ wsent = Prefix(wbuf, wtotal)
          /\ wpos = "oswrite" =>
                /\ woff = wtotal /\ wlen = Len(wbuf) - wtotal /\ wlen > 0
          /\ wpos = "Ok" => wsent = wbuf /\ ~wfailed
          /\ wfailed <=> wpos = "Err")
    /\ [][/\ (~wfailed /\ wfailed') => wpos = "oswrite" /\ wsent' = wsent /\ wtotal' = wtotal
          /\ wfailed => UNCHANGED writerVars
          /\ wpos = "Ok" => UNCHANGED writerVars
          /\ Len(wsent') >= Len(wsent)
          /\ Prefix(wsent', Len(wsent)) = wsent]_vars

\* C15 witness: libc::write took 100 bytes of the 200 response, then some more,
\* and then failed: write_all has returned Err with those bytes sent.
C15_Witness ==
    /\ wbuf = OkResponse
    /\ wpos = "Err"
    /\ 100 < wtotal /\ wtotal < Len(wbuf)
    /\ wsent = Prefix(OkResponse, wtotal)

\* C16, as stated: whatever libc::write returns, call after call (an error,
\* zero, or a count up to the length it was given), write_all returns Ok or Err
\* in the end.
C16_WriteAllReturns ==
    <>(wpos \in {"Ok", "Err"})

(***************************************************************************)
(* Properties of the parser.                                               *)
(***************************************************************************)
ParserRan == pres # NoResult

\* C10: for every input "<METHOD> <PATH> HTTP/1.1" plus whatever follows the
\* first line, METHOD and PATH being tokens without whitespace, parse_request
\* returns Ok with exactly (METHOD, PATH).
C10_WellFormedParses ==
    \A m \in Tokens, p \in Tokens, t \in Tails :
        (ParserRan /\ pin = RequestOf(m, p, t)) => pres = ParseOk(m, p)

\* C10 witness: the parser has run on a well-formed request with a two-character
\* method, a path that differs from it and header lines after the first line.
C10_Witness ==
    /\ ParserRan
    /\ pin = RequestOf(<< "G", "uFFFD" >>, << "/", "G" >>, Tails_Headers)
    /\ pres.ok

\* the text of s before its first "LF", all of s when it has none
FirstLineOf(s) ==
    LET nl == {i \in 1..Len(s) : s[i] = "LF"} IN
    IF nl = {} THEN s
    ELSE SubSeq(s, 1, (CHOOSE i \in nl : \A j \in nl : i <= j) - 1)

\* the positions of s at which a whitespace-separated token begins
TokenStarts(s) ==
    {i \in 1..Len(s) : s[i] \notin WhiteSpace /\ (i = 1 \/ s[i - 1] \in WhiteSpace)}

\* C11: parse_request fails in exactly two cases, with two different errors:
\* "Empty request" when the input is empty (it has no lines), "Invalid request
\* line" when the first line has fewer than three whitespace-separated tokens;
\* on every other input it succeeds.
C11_FailsInTwoCases ==
    ParserRan =>
        LET n == Cardinality(TokenStarts(FirstLineOf(pin))) IN
        /\ pin = << >> => pres = ParseErr("Empty request")
        /\ (pin # << >> /\ n < 3) => pres = ParseErr("Invalid request line")
        /\ (pin # << >> /\ n >= 3) => pres.ok
        /\ ~pres.ok => pres.err \in {"Empty request", "Invalid request line"}
        /\ ~pres.ok => (pres.err = "Empty request" <=> pin = << >>)

\* C11 witness: the parser has failed with "Invalid request line" on an input
\* whose first line is empty and whose second line is a valid request line.
C11_Witness ==
    /\ ParserRan
    /\ pin = << "LF", "G", " ", "/", " ", "G" >>
    /\ pres = ParseErr("Invalid request line")

====
